---------------------------- MODULE Spec2Model ----------------------------
(***************************************************************************)
(* Model of app.py, the AI code generator: the language profile table,     *)
(* the prompt builders, the fenced-block extractor, the temp-file writer,  *)
(* the three button callbacks and the click wiring that applies their      *)
(* return values to the session's components.                              *)
(*                                                                         *)
(* Python strings are sequences of one-character strings, so that split,   *)
(* rsplit, strip, startswith and "in" are computed character by character. *)
(***************************************************************************)
EXTENDS Naturals, Sequences, FiniteSets, TLC

VARIABLES
    code_view,   \* value of the "Generated Code" Markdown component
    dl_code,     \* value of its DownloadButton: <<>> for None, or <<path>>
    tests_view,  \* value of the "Unit Tests" Markdown component
    dl_tests,    \* value of its DownloadButton
    docs_view,   \* value of the "Documentation" Markdown component
    dl_docs,     \* value of its DownloadButton
    alert,       \* the alert Markdown component: [visible, value]
    files,       \* the temp directory: path -> text
    now,         \* datetime.now(), in whole seconds
    calls,       \* number of callback invocations so far
    llmCalls,    \* number of client.chat.completions.create calls so far
    writes,      \* number of open(path, "w") writes so far
    ret,         \* what the last callback invocation did and returned
    lastCode,    \* payload and path of the latest successful on_generate_code
    probe        \* input/output of a pure function applied on its own

vars == <<code_view, dl_code, tests_view, dl_tests, docs_view, dl_docs, alert,
          files, now, calls, llmCalls, writes, ret, lastCode, probe>>

view_vars == <<code_view, dl_code, tests_view, dl_tests, docs_view, dl_docs, alert>>

session_vars == <<code_view, dl_code, tests_view, dl_tests, docs_view, dl_docs,
                  alert, files, now, calls, llmCalls, writes, ret, lastCode>>

-----------------------------------------------------------------------------
(* Bounds of the model *)

\* callback invocations in one explored session
MaxCalls == 2
\* last second the clock reaches
MaxClock == 1
\* tokens concatenated into a completion text given to the extractor alone
MaxTokens == 4

-----------------------------------------------------------------------------
(* Python str operations *)

\* the backquote character (a TLA+ string cannot hold one)
BQ == "BACKQUOTE"

\* the Markdown fence, three backquotes
FENCE == <<BQ, BQ, BQ>>
NL == <<"\n">>

\* str.strip() with no argument removes these from both ends
Whitespace == {" ", "\n"}

\* s[i:i+len(sub)] == sub, i counted from 1
MatchAt(sub, s, i) ==
    /\ i >= 1
    /\ i + Len(sub) - 1 <= Len(s)
    /\ \A k \in 1..Len(sub) : s[i + k - 1] = sub[k]

\* s.find(sub) + 1: index of the first occurrence, 0 when there is none
Find(sub, s) ==
    LET hits == {i \in 1..Len(s) : MatchAt(sub, s, i)}
    IN  IF hits = {} THEN 0
        ELSE CHOOSE i \in hits : \A j \in hits : i <= j

\* s.rfind(sub) + 1: index of the last occurrence, 0 when there is none
RFind(sub, s) ==
    LET hits == {i \in 1..Len(s) : MatchAt(sub, s, i)}
    IN  IF hits = {} THEN 0
        ELSE CHOOSE i \in hits : \A j \in hits : i >= j

\* sub in s
Contains(sub, s) == Find(sub, s) # 0

\* s.startswith(sub)
StartsWith(s, sub) == MatchAt(sub, s, 1)

\* s.split(sep, 1)[0]
SplitHead(s, sep) ==
    LET i == Find(sep, s)
    IN  IF i = 0 THEN s ELSE SubSeq(s, 1, i - 1)

\* s.split(sep, 1)[1], taken only when sep occurs in s (IndexError otherwise)
SplitTail(s, sep) ==
    LET i == Find(sep, s)
    IN  SubSeq(s, i + Len(sep), Len(s))

\* s.rsplit(sep, 1)[0]
RSplitHead(s, sep) ==
    LET i == RFind(sep, s)
    IN  IF i = 0 THEN s ELSE SubSeq(s, 1, i - 1)

\* s.strip()
Strip(s) ==
    LET keep == {i \in 1..Len(s) : s[i] \notin Whitespace}
    IN  IF keep = {} THEN <<>>
        ELSE LET a == CHOOSE i \in keep : \A j \in keep : i <= j
                 b == CHOOSE i \in keep : \A j \in keep : i >= j
             IN  SubSeq(s, a, b)

-----------------------------------------------------------------------------
(* Language profiles *)

S_python == <<"p", "y", "t", "h", "o", "n">>
S_java == <<"j", "a", "v", "a">>
S_javascript == <<"j", "a", "v", "a", "s", "c", "r", "i", "p", "t">>
S_markdown == <<"m", "a", "r", "k", "d", "o", "w", "n">>

\* the profiles; a hint is one character of the model per line of fixed text,
\* with the newline a run_hint holds kept as a character
LANG_PROFILES ==
    [ python |->
        [ fence_lang |-> S_python,
          test_framework |-> "pytest",
          test_hint |-> <<"Use pytest. Put tests in a single test file ...">>,
          run_hint |-> <<"Run the program with: python main.py", "\n",
                         "Run tests with: pytest -q">>,
          doc_hint |-> <<"Include setup, run instructions, and examples ...">>,
          example_filename |-> <<"m", "a", "i", "n", ".", "p", "y">>,
          example_test_filename |->
              <<"t", "e", "s", "t", "_", "m", "a", "i", "n", ".", "p", "y">>,
          readme_name |-> <<"R", "E", "A", "D", "M", "E", ".", "m", "d">> ],
      java |->
        [ fence_lang |-> S_java,
          test_framework |-> "JUnit 5",
          test_hint |-> <<"Use JUnit 5. Provide a single test class ...">>,
          run_hint |-> <<"If using Maven: mvn -q test", "\n",
                         "Compile/run manually with javac/java as applicable.">>,
          doc_hint |-> <<"Explain how to compile and run via Maven or javac ...">>,
          example_filename |->
              <<"T", "i", "n", "y", "U", "r", "l", ".", "j", "a", "v", "a">>,
          example_test_filename |->
              <<"T", "i", "n", "y", "U", "r", "l", "T", "e", "s", "t",
                ".", "j", "a", "v", "a">>,
          readme_name |-> <<"R", "E", "A", "D", "M", "E", ".", "m", "d">> ],
      javascript |->
        [ fence_lang |-> S_javascript,
          test_framework |-> "vitest",
          test_hint |-> <<"Use vitest. Export functions for testability ...">>,
          run_hint |-> <<"Run with: node main.js", "\n",
                         "Run tests with: npx vitest run">>,
          doc_hint |-> <<"Document Node version, install instructions ...">>,
          example_filename |-> <<"m", "a", "i", "n", ".", "j", "s">>,
          example_test_filename |->
              <<"m", "a", "i", "n", ".", "t", "e", "s", "t", ".", "j", "s">>,
          readme_name |-> <<"R", "E", "A", "D", "M", "E", ".", "m", "d">> ] ]

\* language in LANG_PROFILES
Supported(language) == language \in DOMAIN LANG_PROFILES

-----------------------------------------------------------------------------
(* Prompt builders.  A prompt is the sequence of its lines.  A stretch of   *)
(* fixed template text is one character of the model; what is interpolated *)
(* is there character by character.  Each builder starts with              *)
(* p = LANG_PROFILES[language], a KeyError for an unknown language.        *)

KeyError == [exc |-> "KeyError"]

RECURSIVE Lines(_)
\* s.split(NL): the lines of a text
Lines(s) ==
    LET i == Find(NL, s)
    IN  IF i = 0 THEN <<s>>
        ELSE <<SubSeq(s, 1, i - 1)>> \o Lines(SubSeq(s, i + 1, Len(s)))

\* the indentation of the template lines inside dedent(f"""...""")
Indent4 == <<" ", " ", " ", " ">>

\* a template line that ends with {text}: the first line of text follows the
\* prefix, the other lines of text start at column 0
Interpolate(prefix, text) ==
    LET ls == Lines(text)
    IN  <<prefix \o Head(ls)>> \o Tail(ls)

\* the characters textwrap.dedent counts as indentation
IndentChars == {" ", "\t"}

\* a line of indentation characters only (or an empty line)
IsBlank(line) == \A k \in 1..Len(line) : line[k] \in IndentChars

\* the leading indentation of a line
LeadingIndent(line) ==
    LET n == IF IsBlank(line) THEN Len(line)
             ELSE (CHOOSE k \in 1..Len(line) :
                      /\ line[k] \notin IndentChars
                      /\ \A j \in 1..(k - 1) : line[j] \in IndentChars) - 1
    IN  SubSeq(line, 1, n)

\* textwrap.dedent on lines: blank lines are emptied, and the longest
\* indentation common to the other lines is removed from each of them
dedent(lines) ==
    LET solid == {k \in 1..Len(lines) : ~IsBlank(lines[k])}
        indents == {LeadingIndent(lines[k]) : k \in solid}
        common(n) == \A a \in indents, b \in indents :
                         /\ Len(a) >= n
                         /\ SubSeq(a, 1, n) = SubSeq(b, 1, n)
        margin == IF solid = {} THEN 0
                  ELSE LET one == CHOOSE a \in indents : TRUE
                       IN  CHOOSE n \in 0..Len(one) :
                             /\ common(n)
                             /\ \A m \in (n + 1)..Len(one) : ~common(m)
    IN  [k \in 1..Len(lines) |->
           IF k \in solid
           THEN SubSeq(lines[k], margin + 1, Len(lines[k]))
           ELSE <<>>]

code_prompt(requirements, language) ==
    IF ~Supported(language) THEN KeyError
    ELSE LET p == LANG_PROFILES[language]
         IN  [ exc |-> "none",
               lines |-> dedent(
                 << <<>>,
                    Indent4 \o <<"You are a senior ", language,
                                 " engineer. Generate a single, self-contained source file.">>,
                    <<>>,
                    Indent4 \o <<"Requirements:">> >>
                 \o Interpolate(Indent4, Strip(requirements))
                 \o << <<>>,
                       Indent4 \o <<"Constraints:">>,
                       Indent4 \o <<"- Use idiomatic, minimal, production-quality ",
                                    language, ".">>,
                       Indent4 \o <<"- Include clear function/class names.">>,
                       Indent4 \o <<"- Avoid placeholders and pseudo-code.">>,
                       Indent4 \o <<"- If configuration is needed, include sane defaults in code.">>,
                       Indent4 \o <<"- Provide only the code for one file. Do NOT include explanations.">>,
                       Indent4 \o <<"- Prefer a filename like: ">> \o p.example_filename,
                       <<>>,
                       Indent4 \o <<"Output strictly as a fenced code block with the correct language.">>,
                       Indent4 >>) ]

tests_prompt(code, language) ==
    IF ~Supported(language) THEN KeyError
    ELSE LET p == LANG_PROFILES[language]
         IN  [ exc |-> "none",
               lines |-> dedent(
                 << <<>>,
                    Indent4 \o <<"You are a senior ", language,
                                 " engineer. Write unit tests for the code below.">>,
                    <<>>,
                    Indent4 \o <<"Original code:">>,
                    Indent4 \o FENCE >>
                 \o Interpolate(Indent4, code)
                 \o << Indent4 \o FENCE,
                       <<>>,
                       Indent4 \o <<"Testing requirements:">>,
                       Indent4 \o <<"- Framework: ", p.test_framework, ".">>,
                       Indent4 \o <<"- ">> \o p.test_hint,
                       Indent4 \o <<"- Cover happy paths and at least one edge case.">>,
                       Indent4 \o <<"- Provide only ONE test file named like ">>
                               \o p.example_test_filename \o <<".">>,
                       Indent4 \o <<"- Output strictly as a fenced code block with the correct language or 'text' if needed.">>,
                       Indent4 >>) ]

docs_prompt(code, language) ==
    IF ~Supported(language) THEN KeyError
    ELSE LET p == LANG_PROFILES[language]
         IN  [ exc |-> "none",
               lines |-> dedent(
                 << <<>>,
                    Indent4 \o <<"You are a technical writer. Produce a concise README.md for this project.">>,
                    <<>>,
                    Indent4 \o <<"Code to document:">>,
                    Indent4 \o FENCE >>
                 \o Interpolate(Indent4, code)
                 \o << Indent4 \o FENCE,
                       <<>>,
                       Indent4 \o <<"Include:">>,
                       Indent4 \o <<"- Project overview and core features">>,
                       Indent4 \o <<"- Quick start">>,
                       Indent4 \o <<"- How to run the program">>,
                       Indent4 \o <<"- How to run tests (", p.test_framework, ")">>,
                       Indent4 \o <<"- Notes / limitations">>,
                       Indent4 \o <<"- Example usage">>,
                       <<>>,
                       Indent4 \o <<"Hints:">> >>
                 \o Interpolate(Indent4 \o <<"- ">>, p.run_hint)
                 \o << Indent4 \o <<"- ">> \o p.doc_hint,
                       <<>>,
                       Indent4 \o <<"Output strictly as a fenced code block marked 'markdown' with a valid README.md.">>,
                       Indent4 >>) ]

-----------------------------------------------------------------------------
(* The extractor and the Markdown wrapper *)

\* an extractor that takes the first fence whatever its tag
FencedBlock_any_fence_first(content, lang_hint) ==
    IF Contains(FENCE, content)
    THEN Strip(SplitHead(SplitTail(content, FENCE), FENCE))
    ELSE Strip(content)

\* lines 144-159 of llm_fenced_block: the payload of a completion text
FencedBlock(content, lang_hint) ==
    LET fence == FENCE \o lang_hint
    IN  IF Contains(fence, content)
        THEN Strip(SplitHead(SplitTail(content, fence), FENCE))
        ELSE IF Contains(FENCE, content)
        THEN Strip(SplitHead(SplitTail(content, FENCE), FENCE))
        ELSE Strip(content)

\* a wrapper that leaves out the newline after the opening fence
wrap_as_markdown_code_no_newline(snippet, fence_lang) ==
    FENCE \o fence_lang \o Strip(snippet) \o NL \o FENCE

wrap_as_markdown_code(snippet, fence_lang) ==
    FENCE \o fence_lang \o NL \o Strip(snippet) \o NL \o FENCE

\* the inner code of the code viewer's Markdown, as on_generate_tests and
\* on_generate_docs compute it; split(NL, 1)[1] raises IndexError when
\* there is no newline, and the except clause then keeps the stripped view
InnerCode(current_code_md) ==
    LET code == Strip(current_code_md)
    IN  IF StartsWith(code, FENCE)
        THEN IF Contains(NL, code)
             THEN Strip(RSplitHead(SplitTail(code, NL), FENCE))
             ELSE code
        ELSE code

-----------------------------------------------------------------------------
(* File helper *)

TempDir == <<"/", "t", "m", "p">>

Digit == <<"0", "1", "2", "3", "4", "5", "6", "7", "8", "9">>

\* datetime.now().strftime(...): the clock to the second, as digits
Strftime(t) == <<Digit[((t \div 10) % 10) + 1], Digit[(t % 10) + 1]>>

\* os.path.splitext(filename): split at the last dot, unless only dots precede it
SplitExt(filename) ==
    LET dot == RFind(<<".">>, filename)
    IN  IF dot # 0 /\ \E k \in 1..(dot - 1) : filename[k] # "."
        THEN [base |-> SubSeq(filename, 1, dot - 1),
              ext |-> SubSeq(filename, dot, Len(filename))]
        ELSE [base |-> filename, ext |-> <<>>]

\* the path write_temp_file opens for writing at second t
TempPath(filename, t) ==
    LET ts == Strftime(t)
        parts == SplitExt(filename)
        safe_name == IF parts.ext # <<>>
                     THEN parts.base \o <<"-">> \o ts \o parts.ext
                     ELSE filename \o <<"-">> \o ts \o <<".", "t", "x", "t">>
    IN  TempDir \o <<"/">> \o safe_name

\* open(path, "w") then f.write(text), on the directory fs: the file is
\* created, or truncated and rewritten when it exists
WriteFile(fs, path, text) ==
    [p \in (DOMAIN fs) \cup {path} |-> IF p = path THEN text ELSE fs[p]]

\* write_temp_file(text, filename) at second t: the path returned and the write
write_temp_file(text, filename, t) ==
    [path |-> TempPath(filename, t), text |-> text]

-----------------------------------------------------------------------------
(* Completion client and llm_fenced_block *)

\* a completion either raises (network, authentication, rate limit) or
\* returns a message content
ApiError == [ok |-> FALSE]
Completion(content) == [ok |-> TRUE, has_content |-> TRUE, content |-> content]
NoContent == [ok |-> TRUE, has_content |-> FALSE]

\* an llm_fenced_block that swallows the client's failure
llm_fenced_block_swallows(prompt, lang_hint, completion) ==
    IF ~completion.ok
    THEN [exc |-> "none", value |-> <<>>]
    ELSE [exc |-> "none",
          value |-> FencedBlock(IF completion.has_content
                                THEN completion.content ELSE <<>>, lang_hint)]

\* llm_fenced_block(prompt, lang_hint), given what the client call does
llm_fenced_block(prompt, lang_hint, completion) ==
    IF ~completion.ok
    THEN [exc |-> "APIError"]
    ELSE LET content == IF completion.has_content THEN completion.content
                        ELSE <<>>
         IN  [exc |-> "none", value |-> FencedBlock(content, lang_hint)]

-----------------------------------------------------------------------------
(* Button callbacks.  A callback's outcome is a record:                    *)
(*   exc     "none" when it returned, else the exception it raised (the    *)
(*           next three fields are then unused)                            *)
(*   view    value returned for the tab's Markdown (gr.update(value="")    *)
(*           sets the empty string)                                        *)
(*   file    value returned for the tab's DownloadButton: <<>> for None,   *)
(*           <<path>> for a path                                           *)
(*   banner  the gr.update(visible=..., value=...) returned for alert      *)
(*   llm     1 when the completion client was called                       *)
(*   prompt  the prompt built, <<>> when none was                          *)
(*   write   the files written, in order                                   *)

MSG_REQUIREMENTS == "Please enter requirements and choose a language."
MSG_CODE_FIRST == "Generate code first (or paste code) and choose a language."
MSG_UNSUPPORTED(language) == "Unsupported language: " \o language

ErrorTriple(message) ==
    [exc |-> "none", view |-> <<>>, file |-> <<>>,
     banner |-> [visible |-> TRUE, value |-> message],
     llm |-> 0, prompt |-> <<>>, write |-> <<>>]

Raised(exc, llm, prompt) ==
    [exc |-> exc, view |-> <<>>, file |-> <<>>, banner |-> <<>>,
     llm |-> llm, prompt |-> prompt, write |-> <<>>]

Generated(md_view, written, prompt) ==
    [exc |-> "none", view |-> md_view, file |-> <<written.path>>,
     banner |-> [visible |-> FALSE, value |-> ""],
     llm |-> 1, prompt |-> <<prompt>>, write |-> <<written>>]

\* a guard with the language missing only
MissingInput_language_only(text, language) == language = ""

\* the first guard of each callback: "not <text> or not language"
MissingInput(text, language) == text = <<>> \/ language = ""

on_generate_code(requirements, language, completion, t) ==
    IF MissingInput(requirements, language)
    THEN ErrorTriple(MSG_REQUIREMENTS)
    ELSE IF ~Supported(language)
    THEN ErrorTriple(MSG_UNSUPPORTED(language))
    ELSE
      LET prompt == code_prompt(requirements, language)
          raw_code == llm_fenced_block(prompt, LANG_PROFILES[language].fence_lang,
                                       completion)
      IN  IF raw_code.exc # "none"
          THEN Raised(raw_code.exc, 1, <<prompt>>)
          ELSE Generated(
                 wrap_as_markdown_code(raw_code.value,
                                       LANG_PROFILES[language].fence_lang),
                 write_temp_file(raw_code.value,
                                 LANG_PROFILES[language].example_filename, t),
                 prompt)

on_generate_tests(current_code_md, language, completion, t) ==
    IF MissingInput(current_code_md, language)
    THEN ErrorTriple(MSG_CODE_FIRST)
    ELSE
      LET code == InnerCode(current_code_md)
          prompt == tests_prompt(code, language)
      IN  IF prompt.exc # "none"
          THEN Raised(prompt.exc, 0, <<>>)
          ELSE
            LET raw_tests == llm_fenced_block(
                                 prompt, LANG_PROFILES[language].fence_lang,
                                 completion)
            IN  IF raw_tests.exc # "none"
                THEN Raised(raw_tests.exc, 1, <<prompt>>)
                ELSE Generated(
                       wrap_as_markdown_code(raw_tests.value,
                                             LANG_PROFILES[language].fence_lang),
                       write_temp_file(raw_tests.value,
                                       LANG_PROFILES[language].example_test_filename,
                                       t),
                       prompt)

on_generate_docs(current_code_md, language, completion, t) ==
    IF MissingInput(current_code_md, language)
    THEN ErrorTriple(MSG_CODE_FIRST)
    ELSE
      LET code == InnerCode(current_code_md)
          prompt == docs_prompt(code, language)
      IN  IF prompt.exc # "none"
          THEN Raised(prompt.exc, 0, <<>>)
          ELSE
            LET raw_md == llm_fenced_block(prompt, S_markdown, completion)
            IN  IF raw_md.exc # "none"
                THEN Raised(raw_md.exc, 1, <<prompt>>)
                ELSE Generated(
                       wrap_as_markdown_code(raw_md.value, S_markdown),
                       write_temp_file(raw_md.value,
                                       LANG_PROFILES[language].readme_name, t),
                       prompt)

-----------------------------------------------------------------------------
(* The session: the components, the click wiring and the clock *)

\* what the user may have typed in the requirements Textbox
RequirementsInputs == {<<>>, <<"r">>}

\* the language handed to a callback: none, two of the table, one outside it
LanguageInputs == {"", "java", "javascript", "ruby"}

\* what the completion client may do in a session
SessionCompletions ==
    { ApiError,
      \* message.content is None
      NoContent,
      \* plain text, no fence, with surrounding whitespace and a second line
      \* that is indented
      Completion(<<" ", "x", "\n", " ", "y", "\n">>),
      \* prose, then one block tagged java
      Completion(<<"o", "k", " ">> \o FENCE \o S_java \o NL \o <<"x">> \o NL
                 \o FENCE),
      \* an untagged block, then a block tagged markdown
      Completion(FENCE \o NL \o <<"y">> \o NL \o FENCE \o NL
                 \o FENCE \o S_markdown \o NL \o <<"z">> \o NL \o FENCE) }

\* outputs=[...] of the three click bindings: the tab whose Markdown and
\* DownloadButton receive the first two returned values (alert the third)
btn_gen_code_outputs == "code"
\* the tests binding wired to the code tab's components
btn_gen_tests_outputs_code_tab == "code"
btn_gen_tests_outputs == "tests"
btn_gen_docs_outputs == "docs"

NoProbe == [fn |-> "none"]

Init ==
    /\ code_view = <<>>
    /\ dl_code = <<>>
    /\ tests_view = <<>>
    /\ dl_tests = <<>>
    /\ docs_view = <<>>
    /\ dl_docs = <<>>
    /\ alert = [visible |-> FALSE, value |-> ""]
    /\ files = <<>>
    /\ now = 0
    /\ calls = 0
    /\ llmCalls = 0
    /\ writes = 0
    /\ ret = [op |-> "none"]
    /\ lastCode = [some |-> FALSE]
    /\ probe = NoProbe

\* a returned triple is applied to the outputs of the binding; when the
\* callback raised, no output component is updated
ApplyOutputs(tab, r) ==
    IF r.exc = "none"
    THEN /\ code_view' = IF tab = "code" THEN r.view ELSE code_view
         /\ dl_code' = IF tab = "code" THEN r.file ELSE dl_code
         /\ tests_view' = IF tab = "tests" THEN r.view ELSE tests_view
         /\ dl_tests' = IF tab = "tests" THEN r.file ELSE dl_tests
         /\ docs_view' = IF tab = "docs" THEN r.view ELSE docs_view
         /\ dl_docs' = IF tab = "docs" THEN r.file ELSE dl_docs
         /\ alert' = r.banner
    ELSE UNCHANGED view_vars

\* what running a callback does besides returning: the client call and the write
Effects(r) ==
    /\ calls' = calls + 1
    /\ llmCalls' = llmCalls + r.llm
    /\ writes' = writes + Len(r.write)
    /\ files' = IF r.write = <<>> THEN files
                ELSE WriteFile(files, r.write[1].path, r.write[1].text)

BtnGenCodeClick ==
    /\ calls < MaxCalls
    /\ \E requirements \in RequirementsInputs, language \in LanguageInputs,
          completion \in SessionCompletions :
         LET r == on_generate_code(requirements, language, completion, now)
         IN  /\ Effects(r)
             /\ ApplyOutputs(btn_gen_code_outputs, r)
             /\ ret' = [op |-> "code", requirements |-> requirements,
                        language |-> language, client_ok |-> completion.ok,
                        out |-> r]
             /\ lastCode' = IF r.exc = "none" /\ r.write # <<>>
                            THEN [some |-> TRUE, payload |-> r.write[1].text,
                                  path |-> r.write[1].path]
                            ELSE lastCode
    /\ UNCHANGED <<now, probe>>

BtnGenTestsClick ==
    /\ calls < MaxCalls
    /\ \E language \in LanguageInputs, completion \in SessionCompletions :
         LET r == on_generate_tests(code_view, language, completion, now)
         IN  /\ Effects(r)
             /\ ApplyOutputs(btn_gen_tests_outputs, r)
             /\ ret' = [op |-> "tests", current_code_md |-> code_view,
                        language |-> language, client_ok |-> completion.ok,
                        out |-> r]
    /\ UNCHANGED <<now, lastCode, probe>>

BtnGenDocsClick ==
    /\ calls < MaxCalls
    /\ \E language \in LanguageInputs, completion \in SessionCompletions :
         LET r == on_generate_docs(code_view, language, completion, now)
         IN  /\ Effects(r)
             /\ ApplyOutputs(btn_gen_docs_outputs, r)
             /\ ret' = [op |-> "docs", current_code_md |-> code_view,
                        language |-> language, client_ok |-> completion.ok,
                        out |-> r]
    /\ UNCHANGED <<now, lastCode, probe>>

\* a second passes
Tick ==
    /\ now < MaxClock
    /\ now' = now + 1
    /\ UNCHANGED <<view_vars, files, calls, llmCalls, writes, ret, lastCode, probe>>

Next == BtnGenCodeClick \/ BtnGenTestsClick \/ BtnGenDocsClick \/ Tick

Spec == Init /\ [][Next]_vars

-----------------------------------------------------------------------------
(* The string functions on their own: an input is drawn, then the function *)
(* is applied to it once.                                                  *)

RECURSIVE Flatten(_)
\* the concatenation of a sequence of strings
Flatten(parts) ==
    IF parts = <<>> THEN <<>> ELSE Head(parts) \o Flatten(Tail(parts))

\* pieces completion texts and payloads are put together from
Tokens == { FENCE, <<BQ>>, S_java, <<"s", "c", "r", "i", "p", "t">>,
            NL, <<" ">>, <<"x">> }

\* the sequences of at most MaxTokens pieces; a text is one of them flattened
TokenSeqs == UNION { [1..n -> Tokens] : n \in 0..MaxTokens }

\* the fence tags the callbacks pass: the profiles' fence_lang, and markdown
FenceTags == { LANG_PROFILES[l].fence_lang : l \in DOMAIN LANG_PROFILES }
                 \cup { S_markdown }

\* prose around a block: free of fences
Prose == { <<>>, <<"o", "k", " ">>, <<"x", "\n">>, <<BQ, "x", BQ, " ">> }

\* bodies of a block: free of fences
Bodies == { <<>>, <<"x">>, <<" ", "x", "\n">>, <<"x", "\n", " ", "y">> }

\* prose, an opening fence with its tag, the body, a closing fence, prose
BlockText(before, open_tag, body, after) ==
    before \o FENCE \o open_tag \o NL \o body \o NL \o FENCE \o after

InitProbe ==
    /\ code_view = <<>>
    /\ dl_code = <<>>
    /\ tests_view = <<>>
    /\ dl_tests = <<>>
    /\ docs_view = <<>>
    /\ dl_docs = <<>>
    /\ alert = [visible |-> FALSE, value |-> ""]
    /\ files = <<>>
    /\ now = 0
    /\ calls = 0
    /\ llmCalls = 0
    /\ writes = 0
    /\ ret = [op |-> "none"]
    /\ lastCode = [some |-> FALSE]
    /\ \/ \E parts \in TokenSeqs, t \in FenceTags :
              probe = [fn |-> "extract", done |-> FALSE,
                       content |-> Flatten(parts), lang_hint |-> t]
       \/ \E b \in Prose, o \in FenceTags \cup {<<>>}, y \in Bodies,
             a \in Prose, t \in FenceTags :
              probe = [fn |-> "block", done |-> FALSE, before |-> b,
                       open_tag |-> o, body |-> y, after |-> a, lang_hint |-> t]
       \/ \E parts \in TokenSeqs, t \in FenceTags :
              probe = [fn |-> "roundtrip", done |-> FALSE,
                       payload |-> Flatten(parts), fence_lang |-> t]

\* llm_fenced_block on a completion whose content is the drawn text
ApplyExtract ==
    /\ probe.fn = "extract" /\ ~probe.done
    /\ probe' = [probe EXCEPT !.done = TRUE] @@
                [out |-> llm_fenced_block(<<>>, probe.lang_hint,
                                          Completion(probe.content))]
    /\ UNCHANGED session_vars

\* llm_fenced_block on a completion holding one complete fenced block in prose
ApplyBlock ==
    /\ probe.fn = "block" /\ ~probe.done
    /\ probe' = [probe EXCEPT !.done = TRUE] @@
                [out |-> llm_fenced_block(
                             <<>>, probe.lang_hint,
                             Completion(BlockText(probe.before, probe.open_tag,
                                                  probe.body, probe.after)))]
    /\ UNCHANGED session_vars

\* wrap_as_markdown_code, then the viewer re-extraction of the tests and
\* docs callbacks
ApplyRoundTrip ==
    /\ probe.fn = "roundtrip" /\ ~probe.done
    /\ LET md_view == wrap_as_markdown_code(probe.payload, probe.fence_lang)
       IN  probe' = [probe EXCEPT !.done = TRUE] @@
                    [md_view |-> md_view, out |-> InnerCode(md_view)]
    /\ UNCHANGED session_vars

NextProbe == ApplyExtract \/ ApplyBlock \/ ApplyRoundTrip

SpecProbe == InitProbe /\ [][NextProbe]_vars

-----------------------------------------------------------------------------
(* What the claims are stated with *)

RECURSIVE TrimLeft(_)
\* s without its leading whitespace
TrimLeft(s) ==
    IF s # <<>> /\ Head(s) \in Whitespace THEN TrimLeft(Tail(s)) ELSE s

RECURSIVE TrimRight(_)
\* s without its trailing whitespace
TrimRight(s) ==
    IF s # <<>> /\ s[Len(s)] \in Whitespace
    THEN TrimRight(SubSeq(s, 1, Len(s) - 1))
    ELSE s

\* s without surrounding whitespace
Trimmed(s) == TrimRight(TrimLeft(s))

\* the places where marker occurs in text
Occurrences(marker, text) ==
    {i \in 1..Len(text) : \A k \in 1..Len(marker) :
         i + k - 1 <= Len(text) /\ text[i + k - 1] = marker[k]}

\* the least element of a non-empty set of places
Least(S) == CHOOSE i \in S : \A j \in S : i <= j

\* the trimmed text between the first occurrence of marker and the next fence
\* after it (the end of the text when no fence follows)
AfterFirst(marker, text) ==
    LET start == Least(Occurrences(marker, text)) + Len(marker)
        closing == {j \in Occurrences(FENCE, text) : j >= start}
        stop == IF closing = {} THEN Len(text) ELSE Least(closing) - 1
    IN  Trimmed(SubSeq(text, start, stop))

\* the three tiers: the tagged fence, any fence, the whole text
ThreeTier(text, tag) ==
    IF Occurrences(FENCE \o tag, text) # {} THEN AfterFirst(FENCE \o tag, text)
    ELSE IF Occurrences(FENCE, text) # {} THEN AfterFirst(FENCE, text)
    ELSE Trimmed(text)

\* the language handed to the last callback is missing from the profile table
UnknownLanguage == ret.language # "" /\ ret.language \notin DOMAIN LANG_PROFILES

\* the last callback was invoked with one of its guarded inputs empty
MissingInputCase ==
    \/ ret.op = "code" /\ (ret.requirements = <<>> \/ ret.language = "")
    \/ ret.op \in {"tests", "docs"}
         /\ (ret.current_code_md = <<>> \/ ret.language = "")

\* the last callback returned an Error triple: a shown banner and no file path
ReturnedError ==
    /\ ret.out.exc = "none"
    /\ ret.out.banner.visible
    /\ ret.out.banner.value # ""
    /\ ret.out.file = <<>>

Cleared == [visible |-> FALSE, value |-> ""]

\* view is the fenced rendering of the file that dl names
Renders(view, dl, fs) ==
    /\ dl # <<>>
    /\ dl[1] \in DOMAIN fs
    /\ \E tag \in FenceTags : view = FENCE \o tag \o NL \o fs[dl[1]] \o NL \o FENCE

\* the lines a tests or docs prompt holds between its two fence lines, without
\* the template's indentation in front of the first one
EmbeddedCode(lines) ==
    LET fences == {k \in 1..Len(lines) : lines[k] = LeadingIndent(lines[k]) \o FENCE}
        open == Least(fences)
        close == CHOOSE k \in fences : \A j \in fences : k >= j
        kept == Len(LeadingIndent(lines[open]))
    IN  [k \in 1..(close - open - 1) |->
           IF k = 1
           THEN SubSeq(lines[open + 1], kept + 1, Len(lines[open + 1]))
           ELSE lines[open + k]]

-----------------------------------------------------------------------------
(* The claims *)

\* C1: a callback whose input guard fails for missing input returns an Error
\* triple with no file path, and every tab's view and download file are the
\* same after the call as before it.
C1_MissingInputLeavesArtifact ==
    [][ (calls' = calls + 1 /\ MissingInputCase')
          => /\ ReturnedError'
             /\ UNCHANGED <<code_view, dl_code, tests_view, dl_tests,
                            docs_view, dl_docs>> ]_vars

\* C2: each of the three callbacks, given a non-empty language that is no key
\* of the profile table, returns an Error triple with no file path, and does
\* not raise, call the completion client or write a file.
C2_UnsupportedLanguageRecovered ==
    (ret.op # "none" /\ UnknownLanguage)
      => /\ ReturnedError
         /\ ret.out.llm = 0
         /\ ret.out.write = <<>>

\* C3: every write creates exactly one new file, and no file written earlier
\* is overwritten or has its content changed.
C3_NeverOverwrites ==
    [][ writes' = writes + 1
          => /\ Cardinality(DOMAIN files') = Cardinality(DOMAIN files) + 1
             /\ \A p \in DOMAIN files :
                  p \in DOMAIN files' /\ files'[p] = files[p] ]_vars

\* C4 as stated: re-extracting the wrapped payload returns the payload
\* unchanged, for every payload without a fence, surrounding whitespace or not.
C4_RoundTripUnchanged ==
    (probe.fn = "roundtrip" /\ probe.done /\ Occurrences(FENCE, probe.payload) = {})
      => probe.out = probe.payload

\* C4 amended: re-extracting the wrapped payload returns the payload without
\* its leading and trailing whitespace, for every payload without a fence; it
\* is the payload unchanged exactly when the payload has no such whitespace.
C4_RoundTripTrimmed ==
    (probe.fn = "roundtrip" /\ probe.done /\ Occurrences(FENCE, probe.payload) = {})
      => /\ probe.out = Trimmed(probe.payload)
         /\ (probe.out = probe.payload) <=> (Trimmed(probe.payload) = probe.payload)

C4_Witness ==
    /\ probe.fn = "roundtrip" /\ probe.done
    /\ Occurrences(FENCE, probe.payload) = {}
    /\ Len(probe.payload) >= 3
    /\ probe.payload[1] \in Whitespace
    /\ BQ \in {probe.payload[i] : i \in 1..Len(probe.payload)}
    /\ probe.out # <<>>

C6_SuccessRefreshesOneTab ==
    [][ (calls' = calls + 1 /\ writes' = writes + 1)
          => /\ alert' = Cleared
             /\ ret'.op = "code"
                  => /\ Renders(code_view', dl_code', files')
                     /\ UNCHANGED <<tests_view, dl_tests, docs_view, dl_docs>>
             /\ ret'.op = "tests"
                  => /\ Renders(tests_view', dl_tests', files')
                     /\ UNCHANGED <<code_view, dl_code, docs_view, dl_docs>>
             /\ ret'.op = "docs"
                  => /\ Renders(docs_view', dl_docs', files')
                     /\ UNCHANGED <<code_view, dl_code, tests_view, dl_tests>> ]_vars

\* tests generated after code, each tab holding its own artifact
C6_Witness ==
    /\ ret.op = "tests"
    /\ writes = 2
    /\ alert = Cleared
    /\ code_view # <<>> /\ tests_view # <<>>
    /\ dl_code # dl_tests
    /\ docs_view = <<>>

\* C7: generate-tests and generate-docs call the completion client only with a
\* non-empty code view; with an empty one they return the "generate code
\* first" Error triple with no file path, call no client and write no file.
C7_EmptyViewGuard ==
    [][ (calls' = calls + 1 /\ ret'.op \in {"tests", "docs"})
          => /\ llmCalls' > llmCalls => code_view # <<>>
             /\ code_view = <<>>
                  => /\ ReturnedError'
                     /\ ret'.out.banner.value = MSG_CODE_FIRST
                     /\ llmCalls' = llmCalls
                     /\ writes' = writes
                     /\ files' = files ]_vars

\* tests asked for with a known language, as the second call, while the code
\* view is empty
C7_Witness ==
    /\ ret.op = "tests"
    /\ ret.current_code_md = <<>>
    /\ ret.language \in DOMAIN LANG_PROFILES
    /\ calls = 2
    /\ alert.value = MSG_CODE_FIRST

\* C8: for a text holding one complete fenced block in fence-free prose,
\* whatever the block's tag, the extracted payload is the trimmed body of the
\* block.
C8_BlockBodyExtracted ==
    (probe.fn = "block" /\ probe.done)
      => /\ probe.out.exc = "none"
         /\ probe.out.value = Trimmed(probe.body)

\* C9: when the completion client fails after the guard passed, the failure
\* leaves the callback as an exception: no triple is returned, no file is
\* written, and no view, download file or banner changes.
C9_ClientFailurePropagates ==
    [][ (calls' = calls + 1 /\ llmCalls' = llmCalls + 1 /\ ~ret'.client_ok)
          => /\ ret'.out.exc = "APIError"
             /\ UNCHANGED view_vars
             /\ files' = files
             /\ writes' = writes ]_vars

\* the client fails while code, with its file, is on display
C9_Witness ==
    /\ ret.op # "none"
    /\ ~ret.client_ok
    /\ ret.out.exc = "APIError"
    /\ llmCalls = 2
    /\ writes = 1
    /\ code_view # <<>>

\* C10: the code that generate-tests or generate-docs embeds in its prompt is
\* the payload the latest successful generate-code extracted, which is also
\* the content of the file it wrote; every payload written is trimmed and
\* holds no fence.
C10_PromptEmbedsLatestCode ==
    /\ (ret.op \in {"tests", "docs"} /\ ret.out.prompt # <<>>)
         => /\ lastCode.some
            /\ EmbeddedCode(ret.out.prompt[1].lines) = Lines(lastCode.payload)
    /\ lastCode.some => files[lastCode.path] = lastCode.payload
    /\ ret.op # "none"
         => \A i \in 1..Len(ret.out.write) :
              /\ Trimmed(ret.out.write[i].text) = ret.out.write[i].text
              /\ Occurrences(FENCE, ret.out.write[i].text) = {}

=============================================================================
